---- MODULE Spec2Model ----
(***************************************************************************)
(* A model of download_ohlcv_2025.py: the command line of main, the date   *)
(* validator, the two provider adapters, the CSV exporter and the          *)
(* per-asset loop with its success tally and exit status.                  *)
(*                                                                         *)
(* The providers and the file system are the environment: what a provider  *)
(* answers and whether a write succeeds are chosen nondeterministically.   *)
(***************************************************************************)
EXTENDS Integers, Sequences, FiniteSets, TLC

(***************************************************************************)
(* Bounds of the model.                                                    *)
(***************************************************************************)
\* Longest explicit --asset list (each --asset appends one name).
MaxSel == 2
\* Number of rows in a provider's non-empty answer.
MaxRows == 1
\* Longest explicit --asset list when the program is run twice.
MaxSelTwice == 1

(***************************************************************************)
(* Module-level constants of the script.                                   *)
(***************************************************************************)
SUPPORTED_ASSETS == <<"btcusdt", "ethusdt", "xauusd">>

OUTPUT_FILES ==
    [a \in {"btcusdt", "ethusdt", "xauusd"} |->
        CASE a = "btcusdt" -> "btcusdt_ohlcv_2025.csv"
          [] a = "ethusdt" -> "ethusdt_ohlcv_2025.csv"
          [] a = "xauusd"  -> "xauusd_ohlcv_2025.csv"]

DEFAULT_START_DATE == <<"2","0","2","5","-","0","1","-","0","1">>

\* Dates datetime.now() is tried with: the clock when the module is imported.
ClockDates ==
    {[year |-> 2026, month |-> 1, day |-> 5],
     [year |-> 2026, month |-> 10, day |-> 31]}

\* The clock does not run backwards: a is not after b.
NotAfter(a, b) ==
    \/ a.year < b.year
    \/ a.year = b.year /\ a.month < b.month
    \/ a.year = b.year /\ a.month = b.month /\ a.day <= b.day

DigitChar(n) == <<"0", "1", "2", "3", "4", "5", "6", "7", "8", "9">>[n + 1]

\* now.strftime("%Y-%m-%d") for a year of four digits: zero-padded fields.
strftime(now) ==
    <<DigitChar(now.year \div 1000), DigitChar((now.year \div 100) % 10),
      DigitChar((now.year \div 10) % 10), DigitChar(now.year % 10), "-",
      DigitChar(now.month \div 10), DigitChar(now.month % 10), "-",
      DigitChar(now.day \div 10), DigitChar(now.day % 10)>>

\* DEFAULT_END_DATE = datetime.now().strftime("%Y-%m-%d"), evaluated when the
\* module is imported, under the clock now.
DEFAULT_END_DATE(now) == strftime(now)

AssetNames == {SUPPORTED_ASSETS[k] : k \in 1..Len(SUPPORTED_ASSETS)}
FileNames == {OUTPUT_FILES[a] : a \in AssetNames}

(***************************************************************************)
(* validate_date: datetime.strptime(date_str, "%Y-%m-%d").  A date string  *)
(* is a sequence of characters; an ASCII character is written as itself,   *)
(* any other by its code point ("U+0665").  strptime matches the regular   *)
(* expression                                                              *)
(*   (\d\d\d\d)-(1[0-2]|0[1-9]|[1-9])-(3[0-1]|[1-2]\d|0[1-9]|[1-9]| [1-9]) *)
(* at the start of the string (alternatives in order), rejects any         *)
(* unconverted rest, and then builds the date, which rejects year 0 and a  *)
(* day beyond the month's length.                                          *)
(***************************************************************************)
AsciiDigits == {"0", "1", "2", "3", "4", "5", "6", "7", "8", "9"}

\* The characters the class \d matches in a str pattern, the Unicode decimal
\* digits, listed by the number int() gives them: DecimalDigits[v + 1] are
\* the digits of value v.
DecimalDigits ==
    <<
       {"0", "U+0660", "U+06F0", "U+07C0", "U+0966", "U+09E6", "U+0A66",
        "U+0AE6", "U+0B66", "U+0BE6", "U+0C66", "U+0CE6", "U+0D66", "U+0DE6",
        "U+0E50", "U+0ED0", "U+0F20", "U+1040", "U+1090", "U+17E0", "U+1810",
        "U+1946", "U+19D0", "U+1A80", "U+1A90", "U+1B50", "U+1BB0", "U+1C40",
        "U+1C50", "U+A620", "U+A8D0", "U+A900", "U+A9D0", "U+A9F0", "U+AA50",
        "U+ABF0", "U+FF10", "U+104A0", "U+10D30", "U+11066", "U+110F0",
        "U+11136", "U+111D0", "U+112F0", "U+11450", "U+114D0", "U+11650",
        "U+116C0", "U+11730", "U+118E0", "U+11950", "U+11C50", "U+11D50",
        "U+11DA0", "U+16A60", "U+16AC0", "U+16B50", "U+1D7CE", "U+1D7D8",
        "U+1D7E2", "U+1D7EC", "U+1D7F6", "U+1E140", "U+1E2F0", "U+1E950",
        "U+1FBF0"},
       {"1", "U+0661", "U+06F1", "U+07C1", "U+0967", "U+09E7", "U+0A67",
        "U+0AE7", "U+0B67", "U+0BE7", "U+0C67", "U+0CE7", "U+0D67", "U+0DE7",
        "U+0E51", "U+0ED1", "U+0F21", "U+1041", "U+1091", "U+17E1", "U+1811",
        "U+1947", "U+19D1", "U+1A81", "U+1A91", "U+1B51", "U+1BB1", "U+1C41",
        "U+1C51", "U+A621", "U+A8D1", "U+A901", "U+A9D1", "U+A9F1", "U+AA51",
        "U+ABF1", "U+FF11", "U+104A1", "U+10D31", "U+11067", "U+110F1",
        "U+11137", "U+111D1", "U+112F1", "U+11451", "U+114D1", "U+11651",
        "U+116C1", "U+11731", "U+118E1", "U+11951", "U+11C51", "U+11D51",
        "U+11DA1", "U+16A61", "U+16AC1", "U+16B51", "U+1D7CF", "U+1D7D9",
        "U+1D7E3", "U+1D7ED", "U+1D7F7", "U+1E141", "U+1E2F1", "U+1E951",
        "U+1FBF1"},
       {"2", "U+0662", "U+06F2", "U+07C2", "U+0968", "U+09E8", "U+0A68",
        "U+0AE8", "U+0B68", "U+0BE8", "U+0C68", "U+0CE8", "U+0D68", "U+0DE8",
        "U+0E52", "U+0ED2", "U+0F22", "U+1042", "U+1092", "U+17E2", "U+1812",
        "U+1948", "U+19D2", "U+1A82", "U+1A92", "U+1B52", "U+1BB2", "U+1C42",
        "U+1C52", "U+A622", "U+A8D2", "U+A902", "U+A9D2", "U+A9F2", "U+AA52",
        "U+ABF2", "U+FF12", "U+104A2", "U+10D32", "U+11068", "U+110F2",
        "U+11138", "U+111D2", "U+112F2", "U+11452", "U+114D2", "U+11652",
        "U+116C2", "U+11732", "U+118E2", "U+11952", "U+11C52", "U+11D52",
        "U+11DA2", "U+16A62", "U+16AC2", "U+16B52", "U+1D7D0", "U+1D7DA",
        "U+1D7E4", "U+1D7EE", "U+1D7F8", "U+1E142", "U+1E2F2", "U+1E952",
        "U+1FBF2"},
       {"3", "U+0663", "U+06F3", "U+07C3", "U+0969", "U+09E9", "U+0A69",
        "U+0AE9", "U+0B69", "U+0BE9", "U+0C69", "U+0CE9", "U+0D69", "U+0DE9",
        "U+0E53", "U+0ED3", "U+0F23", "U+1043", "U+1093", "U+17E3", "U+1813",
        "U+1949", "U+19D3", "U+1A83", "U+1A93", "U+1B53", "U+1BB3", "U+1C43",
        "U+1C53", "U+A623", "U+A8D3", "U+A903", "U+A9D3", "U+A9F3", "U+AA53",
        "U+ABF3", "U+FF13", "U+104A3", "U+10D33", "U+11069", "U+110F3",
        "U+11139", "U+111D3", "U+112F3", "U+11453", "U+114D3", "U+11653",
        "U+116C3", "U+11733", "U+118E3", "U+11953", "U+11C53", "U+11D53",
        "U+11DA3", "U+16A63", "U+16AC3", "U+16B53", "U+1D7D1", "U+1D7DB",
        "U+1D7E5", "U+1D7EF", "U+1D7F9", "U+1E143", "U+1E2F3", "U+1E953",
        "U+1FBF3"},
       {"4", "U+0664", "U+06F4", "U+07C4", "U+096A", "U+09EA", "U+0A6A",
        "U+0AEA", "U+0B6A", "U+0BEA", "U+0C6A", "U+0CEA", "U+0D6A", "U+0DEA",
        "U+0E54", "U+0ED4", "U+0F24", "U+1044", "U+1094", "U+17E4", "U+1814",
        "U+194A", "U+19D4", "U+1A84", "U+1A94", "U+1B54", "U+1BB4", "U+1C44",
        "U+1C54", "U+A624", "U+A8D4", "U+A904", "U+A9D4", "U+A9F4", "U+AA54",
        "U+ABF4", "U+FF14", "U+104A4", "U+10D34", "U+1106A", "U+110F4",
        "U+1113A", "U+111D4", "U+112F4", "U+11454", "U+114D4", "U+11654",
        "U+116C4", "U+11734", "U+118E4", "U+11954", "U+11C54", "U+11D54",
        "U+11DA4", "U+16A64", "U+16AC4", "U+16B54", "U+1D7D2", "U+1D7DC",
        "U+1D7E6", "U+1D7F0", "U+1D7FA", "U+1E144", "U+1E2F4", "U+1E954",
        "U+1FBF4"},
       {"5", "U+0665", "U+06F5", "U+07C5", "U+096B", "U+09EB", "U+0A6B",
        "U+0AEB", "U+0B6B", "U+0BEB", "U+0C6B", "U+0CEB", "U+0D6B", "U+0DEB",
        "U+0E55", "U+0ED5", "U+0F25", "U+1045", "U+1095", "U+17E5", "U+1815",
        "U+194B", "U+19D5", "U+1A85", "U+1A95", "U+1B55", "U+1BB5", "U+1C45",
        "U+1C55", "U+A625", "U+A8D5", "U+A905", "U+A9D5", "U+A9F5", "U+AA55",
        "U+ABF5", "U+FF15", "U+104A5", "U+10D35", "U+1106B", "U+110F5",
        "U+1113B", "U+111D5", "U+112F5", "U+11455", "U+114D5", "U+11655",
        "U+116C5", "U+11735", "U+118E5", "U+11955", "U+11C55", "U+11D55",
        "U+11DA5", "U+16A65", "U+16AC5", "U+16B55", "U+1D7D3", "U+1D7DD",
        "U+1D7E7", "U+1D7F1", "U+1D7FB", "U+1E145", "U+1E2F5", "U+1E955",
        "U+1FBF5"},
       {"6", "U+0666", "U+06F6", "U+07C6", "U+096C", "U+09EC", "U+0A6C",
        "U+0AEC", "U+0B6C", "U+0BEC", "U+0C6C", "U+0CEC", "U+0D6C", "U+0DEC",
        "U+0E56", "U+0ED6", "U+0F26", "U+1046", "U+1096", "U+17E6", "U+1816",
        "U+194C", "U+19D6", "U+1A86", "U+1A96", "U+1B56", "U+1BB6", "U+1C46",
        "U+1C56", "U+A626", "U+A8D6", "U+A906", "U+A9D6", "U+A9F6", "U+AA56",
        "U+ABF6", "U+FF16", "U+104A6", "U+10D36", "U+1106C", "U+110F6",
        "U+1113C", "U+111D6", "U+112F6", "U+11456", "U+114D6", "U+11656",
        "U+116C6", "U+11736", "U+118E6", "U+11956", "U+11C56", "U+11D56",
        "U+11DA6", "U+16A66", "U+16AC6", "U+16B56", "U+1D7D4", "U+1D7DE",
        "U+1D7E8", "U+1D7F2", "U+1D7FC", "U+1E146", "U+1E2F6", "U+1E956",
        "U+1FBF6"},
       {"7", "U+0667", "U+06F7", "U+07C7", "U+096D", "U+09ED", "U+0A6D",
        "U+0AED", "U+0B6D", "U+0BED", "U+0C6D", "U+0CED", "U+0D6D", "U+0DED",
        "U+0E57", "U+0ED7", "U+0F27", "U+1047", "U+1097", "U+17E7", "U+1817",
        "U+194D", "U+19D7", "U+1A87", "U+1A97", "U+1B57", "U+1BB7", "U+1C47",
        "U+1C57", "U+A627", "U+A8D7", "U+A907", "U+A9D7", "U+A9F7", "U+AA57",
        "U+ABF7", "U+FF17", "U+104A7", "U+10D37", "U+1106D", "U+110F7",
        "U+1113D", "U+111D7", "U+112F7", "U+11457", "U+114D7", "U+11657",
        "U+116C7", "U+11737", "U+118E7", "U+11957", "U+11C57", "U+11D57",
        "U+11DA7", "U+16A67", "U+16AC7", "U+16B57", "U+1D7D5", "U+1D7DF",
        "U+1D7E9", "U+1D7F3", "U+1D7FD", "U+1E147", "U+1E2F7", "U+1E957",
        "U+1FBF7"},
       {"8", "U+0668", "U+06F8", "U+07C8", "U+096E", "U+09EE", "U+0A6E",
        "U+0AEE", "U+0B6E", "U+0BEE", "U+0C6E", "U+0CEE", "U+0D6E", "U+0DEE",
        "U+0E58", "U+0ED8", "U+0F28", "U+1048", "U+1098", "U+17E8", "U+1818",
        "U+194E", "U+19D8", "U+1A88", "U+1A98", "U+1B58", "U+1BB8", "U+1C48",
        "U+1C58", "U+A628", "U+A8D8", "U+A908", "U+A9D8", "U+A9F8", "U+AA58",
        "U+ABF8", "U+FF18", "U+104A8", "U+10D38", "U+1106E", "U+110F8",
        "U+1113E", "U+111D8", "U+112F8", "U+11458", "U+114D8", "U+11658",
        "U+116C8", "U+11738", "U+118E8", "U+11958", "U+11C58", "U+11D58",
        "U+11DA8", "U+16A68", "U+16AC8", "U+16B58", "U+1D7D6", "U+1D7E0",
        "U+1D7EA", "U+1D7F4", "U+1D7FE", "U+1E148", "U+1E2F8", "U+1E958",
        "U+1FBF8"},
       {"9", "U+0669", "U+06F9", "U+07C9", "U+096F", "U+09EF", "U+0A6F",
        "U+0AEF", "U+0B6F", "U+0BEF", "U+0C6F", "U+0CEF", "U+0D6F", "U+0DEF",
        "U+0E59", "U+0ED9", "U+0F29", "U+1049", "U+1099", "U+17E9", "U+1819",
        "U+194F", "U+19D9", "U+1A89", "U+1A99", "U+1B59", "U+1BB9", "U+1C49",
        "U+1C59", "U+A629", "U+A8D9", "U+A909", "U+A9D9", "U+A9F9", "U+AA59",
        "U+ABF9", "U+FF19", "U+104A9", "U+10D39", "U+1106F", "U+110F9",
        "U+1113F", "U+111D9", "U+112F9", "U+11459", "U+114D9", "U+11659",
        "U+116C9", "U+11739", "U+118E9", "U+11959", "U+11C59", "U+11D59",
        "U+11DA9", "U+16A69", "U+16AC9", "U+16B59", "U+1D7D7", "U+1D7E1",
        "U+1D7EB", "U+1D7F5", "U+1D7FF", "U+1E149", "U+1E2F9", "U+1E959",
        "U+1FBF9"}
    >>

DigitValue ==
    [c \in UNION {DecimalDigits[k] : k \in 1..10} |->
        (CHOOSE k \in 1..10 : c \in DecimalDigits[k]) - 1]

\* The class \d.
IsDigit(c) == c \in DOMAIN DigitValue

\* The character at position p, or "" past the end.
CharAt(s, p) == IF p >= 1 /\ p <= Len(s) THEN s[p] ELSE ""

\* The class [lo-hi] of ASCII digits.
InRange(c, lo, hi) == c \in AsciiDigits /\ DigitValue[c] >= lo /\ DigitValue[c] <= hi

\* Number of characters the month directive takes at position p (0: no match).
MonthWidth(s, p) ==
    IF CharAt(s, p) = "1" /\ InRange(CharAt(s, p + 1), 0, 2) THEN 2
    ELSE IF CharAt(s, p) = "0" /\ InRange(CharAt(s, p + 1), 1, 9) THEN 2
    ELSE IF InRange(CharAt(s, p), 1, 9) THEN 1
    ELSE 0

\* Number of characters the day directive takes at position p (0: no match).
DayWidth(s, p) ==
    IF CharAt(s, p) = "3" /\ InRange(CharAt(s, p + 1), 0, 1) THEN 2
    ELSE IF InRange(CharAt(s, p), 1, 2) /\ IsDigit(CharAt(s, p + 1)) THEN 2
    ELSE IF CharAt(s, p) = "0" /\ InRange(CharAt(s, p + 1), 1, 9) THEN 2
    ELSE IF InRange(CharAt(s, p), 1, 9) THEN 1
    ELSE IF CharAt(s, p) = " " /\ InRange(CharAt(s, p + 1), 1, 9) THEN 2
    ELSE 0

\* The number a run of w digit (or blank) characters at p stands for.
NumberAt(s, p, w) ==
    IF w = 1 THEN DigitValue[s[p]]
    ELSE (IF s[p] = " " THEN 0 ELSE 10 * DigitValue[s[p]]) + DigitValue[s[p + 1]]

YearAt(s) ==
    1000 * DigitValue[s[1]] + 100 * DigitValue[s[2]]
        + 10 * DigitValue[s[3]] + DigitValue[s[4]]

IsLeap(y) == (y % 4 = 0) /\ ((y % 100 # 0) \/ (y % 400 = 0))

DaysInMonth(y, m) ==
    IF m = 2 THEN (IF IsLeap(y) THEN 29 ELSE 28)
    ELSE IF m = 4 \/ m = 6 \/ m = 9 \/ m = 11 THEN 30
    ELSE 31

\* TRUE when strptime accepts the string; FALSE when validate_date raises
\* ValueError.
validate_date(date_str) ==
    /\ Len(date_str) >= 5
    /\ IsDigit(date_str[1]) /\ IsDigit(date_str[2])
    /\ IsDigit(date_str[3]) /\ IsDigit(date_str[4])
    /\ date_str[5] = "-"
    /\ LET mw == MonthWidth(date_str, 6) IN
          /\ mw > 0
          /\ CharAt(date_str, 6 + mw) = "-"
          /\ LET dp == 7 + mw
                 dw == DayWidth(date_str, dp)
             IN /\ dw > 0
                /\ Len(date_str) = dp + dw - 1
                /\ LET year == YearAt(date_str) IN
                      /\ year >= 1
                      /\ NumberAt(date_str, dp, dw)
                           <= DaysInMonth(year, NumberAt(date_str, 6, mw))

\* The date strptime builds from a string it accepts.
strptime(date_str) ==
    LET mw == MonthWidth(date_str, 6)
        dp == 7 + mw
    IN [year |-> YearAt(date_str),
        month |-> NumberAt(date_str, 6, mw),
        day |-> NumberAt(date_str, dp, DayWidth(date_str, dp))]

\* datetime.timestamp() of a naive midnight: the conversion from local time
\* looks one day back, and raises ValueError ("year 0 is out of range") when
\* that day is before year 1, which is so for 0001-01-01 and no other date.
TimestampRaises(d) == d.year = 1 /\ d.month = 1 /\ d.day = 1

\* Mutant: only the start date is validated.
DatesValid_StartOnly(start, end) == validate_date(start)

DatesValid(start, end) == validate_date(start) /\ validate_date(end)

(***************************************************************************)
(* Data frames.  A frame is a list of column names and a list of rows; a   *)
(* cell is a typed value [t, v] with v its text.                           *)
(***************************************************************************)
Cell(t, v) == [t |-> t, v |-> v]
NoneCell == Cell("none", "")
NaN == Cell("float", "nan")

NoDf == [columns |-> <<>>, rows |-> <<>>]

HasColumn(frame, name) == \E j \in 1..Len(frame.columns) : frame.columns[j] = name

ColumnIndex(frame, name) ==
    CHOOSE j \in 1..Len(frame.columns) : frame.columns[j] = name

\* Mutant: the selection of the six columns is left out.
SelectColumns_All(frame, names) == frame

\* df[names]: the named columns in the order asked for.
SelectColumns(frame, names) ==
    [columns |-> names,
     rows |-> [k \in 1..Len(frame.rows) |->
                 [j \in 1..Len(names) |-> frame.rows[k][ColumnIndex(frame, names[j])]]]]

RECURSIVE MaxWidth(_)
MaxWidth(rows) ==
    IF rows = <<>> THEN 0
    ELSE LET rest == MaxWidth(Tail(rows))
         IN IF Len(Head(rows)) > rest THEN Len(Head(rows)) ELSE rest

\* pd.DataFrame(data, columns=columns): short rows are padded with None; the
\* constructor raises ValueError (ok = FALSE) when the widest row does not have
\* as many fields as there are column names.
PdDataFrame(data, columns) ==
    IF data # <<>> /\ MaxWidth(data) # Len(columns)
    THEN [ok |-> FALSE, df |-> NoDf]
    ELSE [ok |-> TRUE,
          df |-> [columns |-> columns,
                  rows |-> [k \in 1..Len(data) |->
                              [j \in 1..Len(columns) |->
                                  IF j <= Len(data[k]) THEN data[k][j]
                                  ELSE NoneCell]]]]

(***************************************************************************)
(* Conversions of the adapters.                                            *)
(***************************************************************************)
\* Epoch milliseconds of the sample candles and the timestamps they denote.
EpochMs ==
    [ms \in {"1735689600000", "1735775999999", "1735776000000",
             "1735862399999", "1735862400000", "1735948799999"} |->
        CASE ms = "1735689600000" -> "2025-01-01"
          [] ms = "1735775999999" -> "2025-01-01 23:59:59.999"
          [] ms = "1735776000000" -> "2025-01-02"
          [] ms = "1735862399999" -> "2025-01-02 23:59:59.999"
          [] ms = "1735862400000" -> "2025-01-03"
          [] ms = "1735948799999" -> "2025-01-03 23:59:59.999"]

\* pd.to_datetime(x, unit="ms")
to_datetime(c) ==
    IF c.t = "int" /\ c.v \in DOMAIN EpochMs THEN Cell("datetime", EpochMs[c.v])
    ELSE Cell("datetime", "NaT")

\* The decimal strings of the sample candles and the floats they parse to.
Decimal ==
    [s \in {"93576.00", "94591.79", "96984.79", "25.50", "31.25"} |->
        CASE s = "93576.00" -> "93576.0"
          [] s = "94591.79" -> "94591.79"
          [] s = "96984.79" -> "96984.79"
          [] s = "25.50"    -> "25.5"
          [] s = "31.25"    -> "31.25"]

\* pd.to_numeric(x, errors="coerce"): what does not parse becomes NaN.
to_numeric(c) ==
    IF c.t = "str" /\ c.v \in DOMAIN Decimal THEN Cell("float", Decimal[c.v])
    ELSE IF c.t \in {"int", "float"} THEN c
    ELSE NaN

\* Series.dt.tz_localize(None): the wall-clock time without its offset.
TzNaive ==
    [s \in {"2025-01-02 00:00:00-05:00", "2025-01-03 00:00:00-05:00",
            "2025-01-06 00:00:00-05:00"} |->
        CASE s = "2025-01-02 00:00:00-05:00" -> "2025-01-02"
          [] s = "2025-01-03 00:00:00-05:00" -> "2025-01-03"
          [] s = "2025-01-06 00:00:00-05:00" -> "2025-01-06"]

tz_localize_none(c) ==
    IF c.t = "datetimetz" /\ c.v \in DOMAIN TzNaive THEN Cell("datetime", TzNaive[c.v])
    ELSE c

\* The conversion named `how` of one cell.
Convert(how, c) ==
    CASE how = "to_datetime"   -> to_datetime(c)
      [] how = "to_numeric"    -> to_numeric(c)
      [] how = "tz_localize"   -> tz_localize_none(c)

\* df[name] = how(df[name])
MapColumn(frame, name, how) ==
    [frame EXCEPT !.rows =
        [k \in 1..Len(frame.rows) |->
            [j \in 1..Len(frame.columns) |->
                IF frame.columns[j] = name THEN Convert(how, frame.rows[k][j])
                ELSE frame.rows[k][j]]]]

KlineColumns ==
    <<"Open Time", "Open", "High", "Low", "Close", "Volume", "Close Time",
      "Quote Asset Volume", "Number of Trades", "Taker Buy Base Asset Volume",
      "Taker Buy Quote Asset Volume", "Ignore">>

OhlcvColumns == <<"Open Time", "Open", "High", "Low", "Close", "Volume">>

NumericCols == <<"Open", "High", "Low", "Close", "Volume">>

\* for col in numeric_cols: df[col] = pd.to_numeric(df[col], errors="coerce")
RECURSIVE CoerceColumns(_, _)
CoerceColumns(frame, cols) ==
    IF cols = <<>> THEN frame
    ELSE CoerceColumns(MapColumn(frame, Head(cols), "to_numeric"), Tail(cols))

\* What an adapter call comes to: a frame, or an exception; asked tells
\* whether the provider was called.
Returned(frame) == [raised |-> FALSE, df |-> frame, asked |-> TRUE]
Raised == [raised |-> TRUE, df |-> NoDf, asked |-> TRUE]
RaisedUnasked == [raised |-> TRUE, df |-> NoDf, asked |-> FALSE]

\* int(datetime.strptime(date_str, "%Y-%m-%d").timestamp() * 1000) raises.
TimestampFails(date_str) ==
    ~validate_date(date_str) \/ TimestampRaises(strptime(date_str))

\* download_binance_ohlcv, given what the exchange answers: resp.err is an API
\* or transport error, resp.klines the candles otherwise.  The two dates are
\* converted to timestamps before the exchange is asked.  An empty list of
\* candles is not checked for: it yields a frame of six columns and no rows.
download_binance_ohlcv(symbol, start_date, end_date, resp) ==
    IF TimestampFails(start_date) \/ TimestampFails(end_date) THEN RaisedUnasked
    ELSE IF resp.err THEN Raised
    ELSE LET made == PdDataFrame(resp.klines, KlineColumns) IN
         IF ~made.ok THEN Raised
         ELSE LET d1 == MapColumn(made.df, "Open Time", "to_datetime")
                  d2 == MapColumn(d1, "Close Time", "to_datetime")
                  d3 == CoerceColumns(d2, NumericCols)
              IN Returned(SelectColumns(d3, OhlcvColumns))

(***************************************************************************)
(* The market-data adapter.                                                *)
(***************************************************************************)
\* df.reset_index(): the index becomes the first column, under its name.
reset_index(hist) ==
    [columns |-> <<hist.index_name>> \o hist.columns,
     rows |-> [k \in 1..Len(hist.rows) |-> <<hist.index[k]>> \o hist.rows[k]]]

\* df.rename(columns={old: new})
rename(frame, old, new) ==
    [frame EXCEPT !.columns =
        [j \in 1..Len(frame.columns) |->
            IF frame.columns[j] = old THEN new ELSE frame.columns[j]]]

\* download_yahoo_ohlcv, given what the provider answers: resp.err is an error
\* of ticker.history, resp.hist its frame otherwise.  An empty frame raises
\* ValueError; a frame lacking one of the six columns raises KeyError.
download_yahoo_ohlcv(symbol, start_date, end_date, resp) ==
    IF resp.err THEN Raised
    ELSE IF resp.hist.rows = <<>> THEN Raised
    ELSE LET d1 == reset_index(resp.hist)
             d2 == rename(d1, "Date", "Open Time")
         IN IF \E j \in 1..Len(OhlcvColumns) : ~HasColumn(d2, OhlcvColumns[j])
            THEN Raised
            ELSE Returned(MapColumn(SelectColumns(d2, OhlcvColumns),
                                    "Open Time", "tz_localize"))


(***************************************************************************)
(* The exporter.  A file is absent or a list of lines, a line a list of    *)
(* fields.                                                                 *)
(***************************************************************************)
Absent == [exists |-> FALSE, lines |-> <<>>]
FileOf(lines) == [exists |-> TRUE, lines |-> lines]

\* The text to_csv writes for a cell: a missing value is the empty field.
FormatCell(c) == IF c = NaN \/ c.t = "none" \/ c.v = "NaT" THEN "" ELSE c.v

\* df.to_csv(index=False): the header row, then one line per record.
CsvLines(frame) ==
    <<frame.columns>> \o
    [k \in 1..Len(frame.rows) |->
        [j \in 1..Len(frame.columns) |-> FormatCell(frame.rows[k][j])]]

\* Mutant: the file is opened for appending.
Written_Append(old, lines) == FileOf(old.lines \o lines)

\* What the target holds once the write has gone through: the file is opened
\* for writing, which drops what it held.
Written(old, lines) == FileOf(lines)

\* What can happen to one write: "none", it goes through; "open", opening the
\* target fails and the target is untouched; "write", the target is opened
\* (and so emptied) and the write fails before anything of it is flushed.
IoOutcomes == {"none", "open", "write"}

\* save_to_csv(df, filename) under the outcome io: the files afterwards, and
\* whether the exception was re-raised.
save_to_csv(frame, filename, fs, io) ==
    IF io = "none"
    THEN [raised |-> FALSE,
          files |-> [fs EXCEPT ![filename] = Written(@, CsvLines(frame))]]
    ELSE IF io = "open"
    THEN [raised |-> TRUE, files |-> fs]
    ELSE [raised |-> TRUE, files |-> [fs EXCEPT ![filename] = Written(@, <<>>)]]

(***************************************************************************)
(* The environment: what the providers can answer.                         *)
(***************************************************************************)
\* Daily candles as the exchange sends them: twelve fields each.
KlineSample ==
    << <<Cell("int", "1735689600000"), Cell("str", "93576.00"), Cell("str", "94591.79"),
         Cell("str", "93576.00"), Cell("str", "94591.79"), Cell("str", "25.50"),
         Cell("int", "1735775999999"), Cell("str", "31.25"), Cell("int", "1200"),
         Cell("str", "25.50"), Cell("str", "31.25"), Cell("str", "0")>>,
       <<Cell("int", "1735776000000"), Cell("str", "94591.79"), Cell("str", "96984.79"),
         Cell("str", "93576.00"), Cell("str", "96984.79"), Cell("str", ""),
         Cell("int", "1735862399999"), Cell("str", "31.25"), Cell("int", "900"),
         Cell("str", "25.50"), Cell("str", "31.25"), Cell("str", "0")>>,
       <<Cell("int", "1735862400000"), Cell("str", "96984.79"), Cell("str", "96984.79"),
         Cell("str", "94591.79"), Cell("str", "94591.79"), Cell("str", "31.25"),
         Cell("int", "1735948799999"), Cell("str", "25.50"), Cell("int", "700"),
         Cell("str", "25.50"), Cell("str", "31.25"), Cell("str", "0")>> >>

\* A candle with a field missing.
ShortKline == SubSeq(KlineSample[1], 1, 11)

ExchangeFailure == [err |-> TRUE, klines |-> <<>>]

\* The answers a provider is tried with: an error, an answer of an
\* unexpected shape, an empty answer (n = 0), or the first MaxRows sample rows.
AnswerKinds ==
    {[kind |-> "error", n |-> 0], [kind |-> "malformed", n |-> 1]}
        \cup {[kind |-> "rows", n |-> n] : n \in {0, MaxRows}}

\* The entry of a provider that was not asked.
NoAnswer == [kind |-> "none", n |-> 0]

\* What get_historical_klines does for an answer of the given kind.
BinanceResponse(answer) ==
    CASE answer.kind = "error"     -> ExchangeFailure
      [] answer.kind = "rows"      ->
            [err |-> FALSE, klines |-> SubSeq(KlineSample, 1, answer.n)]
      [] answer.kind = "malformed" -> [err |-> FALSE, klines |-> <<ShortKline>>]

\* Daily bars as the market-data provider sends them: a frame indexed by date.
HistoryColumns ==
    <<"Open", "High", "Low", "Close", "Volume", "Dividends", "Stock Splits">>

HistoryIndex ==
    <<Cell("datetimetz", "2025-01-02 00:00:00-05:00"),
      Cell("datetimetz", "2025-01-03 00:00:00-05:00"),
      Cell("datetimetz", "2025-01-06 00:00:00-05:00")>>

HistoryRows ==
    << <<Cell("float", "2633.5"), Cell("float", "2670.0"), Cell("float", "2633.5"),
         Cell("float", "2658.9"), Cell("int", "640"), Cell("float", "0.0"),
         Cell("float", "0.0")>>,
       <<Cell("float", "2658.9"), Cell("float", "2665.0"), Cell("float", "2640.1"),
         Cell("float", "2645.0"), Cell("int", "512"), Cell("float", "0.0"),
         Cell("float", "0.0")>>,
       <<Cell("float", "2645.0"), Cell("float", "2649.4"), Cell("float", "2621.0"),
         Cell("float", "2638.4"), Cell("int", "377"), Cell("float", "0.0"),
         Cell("float", "0.0")>> >>

History(index_name, n) ==
    [index_name |-> index_name, columns |-> HistoryColumns,
     index |-> SubSeq(HistoryIndex, 1, n), rows |-> SubSeq(HistoryRows, 1, n)]

FeedFailure == [err |-> TRUE, hist |-> History("Date", 0)]

\* What ticker.history does for an answer of the given kind.
YahooResponse(answer) ==
    CASE answer.kind = "error"     -> FeedFailure
      [] answer.kind = "rows"      -> [err |-> FALSE, hist |-> History("Date", answer.n)]
      [] answer.kind = "malformed" -> [err |-> FALSE, hist |-> History("Datetime", 1)]


(***************************************************************************)
(* download_asset: the routing of an asset to its adapter and symbol.      *)
(***************************************************************************)
\* Mutant: ethusdt is fetched under the other pair's symbol.
Route_Swapped(asset) ==
    CASE asset = "btcusdt" -> [adapter |-> "binance", symbol |-> "BTCUSDT"]
      [] asset = "ethusdt" -> [adapter |-> "binance", symbol |-> "BTCUSDT"]
      [] asset = "xauusd"  -> [adapter |-> "yahoo", symbol |-> "GC=F"]
      [] OTHER             -> [adapter |-> "unknown", symbol |-> ""]

Route(asset) ==
    CASE asset = "btcusdt" -> [adapter |-> "binance", symbol |-> "BTCUSDT"]
      [] asset = "ethusdt" -> [adapter |-> "binance", symbol |-> "ETHUSDT"]
      [] asset = "xauusd"  -> [adapter |-> "yahoo", symbol |-> "GC=F"]
      [] OTHER             -> [adapter |-> "unknown", symbol |-> ""]

\* What the provider an asset is routed to sends for an answer of the given
\* kind.
ResponseFor(asset, answer) ==
    IF Route(asset).adapter = "binance" THEN BinanceResponse(answer)
    ELSE YahooResponse(answer)

\* The adapter call of download_asset under the provider's answer resp.
FetchAsset(asset, start_date, end_date, resp) ==
    IF Route(asset).adapter = "binance"
    THEN download_binance_ohlcv(Route(asset).symbol, start_date, end_date, resp)
    ELSE download_yahoo_ohlcv(Route(asset).symbol, start_date, end_date, resp)

\* Mutant: every frame goes to the first file.
TargetFile_First(asset) == OUTPUT_FILES["btcusdt"]

\* The file download_asset hands to save_to_csv.
TargetFile(asset) == OUTPUT_FILES[asset]

\* Rows in a provider's answer; -1 for an error.
AnswerRows(asset, resp) ==
    IF resp.err THEN -1
    ELSE IF Route(asset).adapter = "binance" THEN Len(resp.klines)
    ELSE Len(resp.hist.rows)

(***************************************************************************)
(* main.                                                                   *)
(***************************************************************************)
\* Mutant: the --asset list is ignored.
SelectAssets_Canonical(asset_arg) == SUPPORTED_ASSETS

\* assets_to_download = args.asset if args.asset else SUPPORTED_ASSETS; an
\* omitted --asset is the empty list here.
SelectAssets(asset_arg) == IF asset_arg # <<>> THEN asset_arg ELSE SUPPORTED_ASSETS

\* Mutant: every entry is counted, failed or not.
Tally_CountAll(count, ok) == count + 1

\* if download_asset(...): success_count += 1
Tally(count, ok) == IF ok THEN count + 1 ELSE count

\* Mutant: the status is 1 only when nothing succeeded.
ExitStatus_NoneSucceeded(success, total) == IF success = 0 THEN 1 ELSE 0

\* if success_count < total_count: sys.exit(1); status 0 otherwise
ExitStatus(success, total) == IF success < total THEN 1 ELSE 0

RECURSIVE SeqsUpTo(_, _)
SeqsUpTo(S, n) ==
    IF n = 0 THEN {<<>>}
    ELSE LET shorter == SeqsUpTo(S, n - 1)
         IN shorter \cup {Append(q, x) : q \in shorter, x \in S}

\* The --asset lists argparse lets through: names of the closed set, in the
\* order given, repeats included; <<>> when the flag is omitted.
AssetArgs == SeqsUpTo(AssetNames, MaxSel)

\* Date strings tried for --start and --end: two that validate (a leap day
\* with the year in Arabic-Indic digits and unpadded fields; the first day of
\* year 1) and strings that do not.
DateSamples ==
    {<<"U+0662","U+0660","U+0662","U+0664","-","2","-","2","9">>,
     <<"0","0","0","1","-","0","1","-","0","1">>,
     <<"2","0","2","5","-","0","2","-","2","U+0669">>,
     <<"2","0","2","5","-","0","U+0661","-","0","1">>,
     <<"2","0","2","5","/","0","1","/","0","1">>,
     <<"2","0","2","5","-","1","3","-","0","1">>,
     <<"2","0","2","5","-","0","1","-","3","2">>,
     <<"2","0","2","5","-","0","1","-","0","1"," ">>,
     <<"0","0","0","0","-","0","1","-","0","1">>,
     <<"0","1","-","0","1","-","2","0","2","5">>,
     <<>>}

\* A flag that is not on the command line.
Omitted == <<"omitted">>

\* add_argument(..., default=...): the flag's value, or its default.
ArgOrDefault(opt, default) == IF opt = Omitted THEN default ELSE opt

\* The invocations tried, as <<clock, --start, --end>>: a command line
\* without dates on every clock date; on one clock date, any --start with
\* --end omitted, rejected, or the first day of year 1.
DateArgs ==
    {inv \in ClockDates \X (DateSamples \cup {Omitted})
                        \X (DateSamples \cup {Omitted}) :
        \/ inv[2] = Omitted /\ inv[3] = Omitted
        \/ /\ inv[1] = [year |-> 2026, month |-> 10, day |-> 31]
           /\ inv[3] = Omitted \/ TimestampFails(inv[3])}

\* A file left by an earlier run.
OldFile ==
    FileOf(<<OhlcvColumns, <<"2024-12-31", "1.0", "2.0", "0.5", "1.5", "10.0">>>>)

\* The working directory before the first run: empty, or holding the three
\* files of an earlier run.
InitialFiles == {[f \in FileNames |-> Absent], [f \in FileNames |-> OldFile]}

VARIABLES
    today,               \* datetime.now() when the module was imported
    argAsset,            \* args.asset (<<>>: omitted)
    argStart,            \* args.start
    argEnd,              \* args.end
    endOmitted,          \* --end is not on the command line
    pc,                  \* "main", "loop", "fetched", "done"
    assets_to_download,
    i,                   \* position of the loop in assets_to_download
    df,                  \* the frame download_asset holds between fetch and export
    success_count,
    total_count,
    summary,             \* the counts of the summary line, <<>> until printed
    exit_status,         \* -1 while running
    files,               \* file name -> content
    files0,              \* the files when the run started
    log,                 \* provider calls and writes of the run, in order
    run,                 \* 1, or 2 for a second invocation
    responses,           \* the providers' answers of the first run, by position
    files1,              \* the files when the first run ended
    io1                  \* how the writes of the first run went, in order

vars ==
    <<today, argAsset, argStart, argEnd, endOmitted, pc, assets_to_download, i, df, success_count,
      total_count, summary, exit_status, files, files0, log, run, responses,
      files1, io1>>

\* How the calls of a log went: which entry, and the outcome of the write.
IoOf(l) == [j \in 1..Len(l) |-> <<l[j].op, l[j].pos, l[j].io>>]

\* An adapter call; nrows is -1 when the provider was not asked.
FetchEvent(pos, asset, resp, got) ==
    [op |-> "fetch", pos |-> pos, asset |-> asset, adapter |-> Route(asset).adapter,
     target |-> Route(asset).symbol,
     nrows |-> IF got.asked THEN AnswerRows(asset, resp) ELSE -1,
     raised |-> got.raised, io |-> "none"]

ExportEvent(pos, asset, frame, io, raised) ==
    [op |-> "export", pos |-> pos, asset |-> asset, adapter |-> "file",
     target |-> TargetFile(asset), nrows |-> Len(frame.rows),
     raised |-> raised, io |-> io]

Init ==
    /\ argAsset \in AssetArgs
    /\ \E inv \in DateArgs :
          /\ today = inv[1]
          /\ argStart = ArgOrDefault(inv[2], DEFAULT_START_DATE)
          /\ argEnd = ArgOrDefault(inv[3], DEFAULT_END_DATE(inv[1]))
          /\ endOmitted = (inv[3] = Omitted)
    /\ files \in InitialFiles
    /\ files0 = files
    /\ pc = "main"
    /\ assets_to_download = <<>>
    /\ i = 0
    /\ df = NoDf
    /\ success_count = 0
    /\ total_count = 0
    /\ summary = <<>>
    /\ exit_status = -1
    /\ log = <<>>
    /\ run = 1
    /\ responses = <<>>
    /\ files1 = files
    /\ io1 = <<>>

\* main up to the loop: validate both dates or exit with status 1, then
\* settle the asset list and the counters.
ValidateDates ==
    /\ pc = "main"
    /\ IF DatesValid(argStart, argEnd)
       THEN /\ assets_to_download' = SelectAssets(argAsset)
            /\ total_count' = Len(SelectAssets(argAsset))
            /\ success_count' = 0
            /\ i' = 1
            /\ pc' = "loop"
            /\ UNCHANGED exit_status
       ELSE /\ exit_status' = 1
            /\ pc' = "done"
            /\ UNCHANGED <<assets_to_download, total_count, success_count, i>>
    /\ UNCHANGED <<today, argAsset, argStart, argEnd, endOmitted, df, summary,
                   files, files0, log, run, responses, files1, io1>>

\* download_asset, first half: the adapter call for the asset at position i.
\* An exception ends download_asset with False; an unknown name does too,
\* without a call.
Fetch ==
    /\ pc = "loop"
    /\ i <= Len(assets_to_download)
    /\ LET asset == assets_to_download[i] IN
       IF Route(asset).adapter = "unknown"
       THEN /\ success_count' = Tally(success_count, FALSE)
            /\ i' = i + 1
            /\ UNCHANGED <<pc, df, log, responses>>
       ELSE \E answer \in AnswerKinds :
            /\ run = 2 /\ responses[i] # NoAnswer => answer = responses[i]
            /\ LET resp == ResponseFor(asset, answer)
                   got == FetchAsset(asset, argStart, argEnd, resp)
               IN
               /\ log' = Append(log, FetchEvent(i, asset, resp, got))
               /\ responses' =
                     IF run = 1
                     THEN Append(responses, IF got.asked THEN answer ELSE NoAnswer)
                     ELSE responses
               /\ IF got.raised
                  THEN /\ success_count' = Tally(success_count, FALSE)
                       /\ i' = i + 1
                       /\ UNCHANGED <<pc, df>>
                  ELSE /\ df' = got.df
                       /\ pc' = "fetched"
                       /\ UNCHANGED <<success_count, i>>
    /\ UNCHANGED <<today, argAsset, argStart, argEnd, endOmitted,
                   assets_to_download, total_count, summary, exit_status, files,
                   files0, run, files1, io1>>

\* download_asset, second half: save_to_csv on the asset's file, then back in
\* main the tally.
Export ==
    /\ pc = "fetched"
    /\ LET asset == assets_to_download[i] IN
       \E io \in IoOutcomes :
          LET saved == save_to_csv(df, TargetFile(asset), files, io) IN
          /\ files' = saved.files
          /\ log' = Append(log, ExportEvent(i, asset, df, io, saved.raised))
          /\ success_count' = Tally(success_count, ~saved.raised)
    /\ i' = i + 1
    /\ df' = NoDf
    /\ pc' = "loop"
    /\ UNCHANGED <<today, argAsset, argStart, argEnd, endOmitted,
                   assets_to_download, total_count, summary, exit_status, files0,
                   run, responses, files1, io1>>

\* main after the loop: the summary line and the exit status.
Finish ==
    /\ pc = "loop"
    /\ i > Len(assets_to_download)
    /\ summary' = <<success_count, total_count>>
    /\ exit_status' = ExitStatus(success_count, total_count)
    /\ pc' = "done"
    /\ UNCHANGED <<today, argAsset, argStart, argEnd, endOmitted,
                   assets_to_download, i, df, success_count, total_count, files,
                   files0, log, run, responses, files1, io1>>

\* The program is started again with the same command line, at the same or a
\* later date; the providers will answer as they did.
Rerun ==
    /\ pc = "done"
    /\ run = 1
    /\ run' = 2
    /\ \E now \in ClockDates :
          /\ NotAfter(today, now)
          /\ today' = now
          /\ argEnd' = IF endOmitted THEN DEFAULT_END_DATE(now) ELSE argEnd
    /\ files1' = files
    /\ io1' = IoOf(log)
    /\ files0' = files
    /\ log' = <<>>
    /\ pc' = "main"
    /\ assets_to_download' = <<>>
    /\ i' = 0
    /\ df' = NoDf
    /\ success_count' = 0
    /\ total_count' = 0
    /\ summary' = <<>>
    /\ exit_status' = -1
    /\ UNCHANGED <<argAsset, argStart, endOmitted, files, responses>>

Next == ValidateDates \/ Fetch \/ Export \/ Finish

Spec == Init /\ [][Next]_vars

NextTwice == Next \/ Rerun

\* Two runs with the default dates.
InitTwice ==
    /\ Init
    /\ Len(argAsset) <= MaxSelTwice
    /\ argStart = DEFAULT_START_DATE
    /\ endOmitted

SpecTwice == InitTwice /\ [][NextTwice]_vars


(***************************************************************************)
(* Vocabulary of the properties.                                           *)
(***************************************************************************)
\* The order the selection asks for: the --asset list as given, or the three
\* names in canonical order when the flag is omitted.
Requested ==
    IF argAsset = <<>> THEN <<"btcusdt", "ethusdt", "xauusd">> ELSE argAsset

BothDatesGood == validate_date(argStart) /\ validate_date(argEnd)

LogIndex == 1..Len(log)

Fetches == {j \in LogIndex : log[j].op = "fetch"}
Exports == {j \in LogIndex : log[j].op = "export"}

\* The positions of the list whose fetch and export both went through.
Succeeded ==
    {p \in 1..Len(Requested) :
        /\ \E j \in Fetches : log[j].pos = p /\ ~log[j].raised
        /\ \E j \in Exports : log[j].pos = p /\ ~log[j].raised}

\* The positions of the list at which an exception was caught.
Failed == {p \in 1..Len(Requested) : \E j \in LogIndex : log[j].pos = p /\ log[j].raised}

SixColumns == <<"Open Time", "Open", "High", "Low", "Close", "Volume">>

FileFor(asset) ==
    CASE asset = "btcusdt" -> "btcusdt_ohlcv_2025.csv"
      [] asset = "ethusdt" -> "ethusdt_ohlcv_2025.csv"
      [] asset = "xauusd"  -> "xauusd_ohlcv_2025.csv"

\* C1: the run fetches once per entry of the selection, in the order of the
\* list (the --asset order, or btcusdt, ethusdt, xauusd when omitted), one
\* entry at a time: the k-th fetch is for the k-th entry, an export comes at
\* most once per entry and directly after that entry's fetch returned, a
\* returned fetch is followed by its export before the next fetch, and a run
\* with valid dates ends having fetched every entry.
C1_OneFetchPerAssetInOrder ==
    /\ \A j \in LogIndex :
          /\ log[j].pos >= 1 /\ log[j].pos <= Len(Requested)
          /\ log[j].asset = Requested[log[j].pos]
          /\ log[j].op = "fetch" =>
                /\ log[j].pos = Cardinality({k \in 1..j : log[k].op = "fetch"})
                /\ j > 1 /\ log[j - 1].op = "fetch" => log[j - 1].raised
          /\ log[j].op = "export" =>
                /\ j > 1
                /\ log[j - 1].op = "fetch"
                /\ log[j - 1].pos = log[j].pos
                /\ ~log[j - 1].raised
    /\ pc = "done" /\ BothDatesGood =>
          /\ Cardinality(Fetches) = Len(Requested)
          /\ log # <<>> /\ log[Len(log)].op = "fetch" => log[Len(log)].raised

\* An explicit list in an order other than the canonical one, both entries
\* fetched and exported.
C1_Witness ==
    /\ pc = "done"
    /\ argAsset = <<"xauusd", "btcusdt">>
    /\ Len(log) = 4
    /\ log[1].asset = "xauusd" /\ log[3].asset = "btcusdt"

\* C2: when the start or the end string fails validation the process ends with
\* status 1, no provider call and no write; no provider is called in any run
\* before both strings have validated.
C2_BadDateExitsBeforeAnyCall ==
    /\ ~BothDatesGood /\ pc # "main" =>
          /\ pc = "done"
          /\ exit_status = 1
          /\ log = <<>>
          /\ files = files0
    /\ log # <<>> => BothDatesGood

\* A valid start with a rejected end, after the exit.
C2_Witness ==
    /\ pc = "done"
    /\ validate_date(argStart)
    /\ ~validate_date(argEnd)
    /\ exit_status = 1

\* C3: a provider answer of zero rows, from either adapter, counts as a failure
\* of that instrument and no file is written for it.
C3_EmptyAnswerIsFailure ==
    \A j \in Fetches :
        log[j].nrows = 0 =>
            /\ log[j].raised
            /\ j < Len(log) => log[j + 1].op = "fetch"

\* C4: with valid dates the exit status is 1 exactly when success_count is
\* below total_count, and 0 exactly when every requested entry went through
\* fetch and export.
C4_ExitStatusIffShortfall ==
    pc = "done" /\ BothDatesGood =>
        /\ exit_status \in {0, 1}
        /\ exit_status = 1 <=> success_count < total_count
        /\ exit_status = 0 <=> Succeeded = 1..Len(Requested)

\* Two entries, both through: status 0.
C4_Witness ==
    /\ pc = "done"
    /\ Len(Requested) = 2
    /\ Succeeded = {1, 2}
    /\ exit_status = 0

\* The positions of the list with a failure at some stage: an exception at
\* the fetch or at the export, or a provider answer of zero rows.
FailedAtSomeStage ==
    {p \in 1..Len(Requested) :
        \E j \in LogIndex :
            /\ log[j].pos = p
            /\ log[j].raised \/ (log[j].op = "fetch" /\ log[j].nrows = 0)}

\* C5: a failure at any stage of one entry (fetch error, empty result, export
\* error) marks that entry, and only that entry, as failed and does not end
\* the batch: after an exception the loop stands at its next entry or past
\* the last with the summary to come, every entry is still attempted, the
\* tally is the number of entries without a failure at any stage, and a run
\* with valid dates reaches the summary.
C5_FailureIsIsolated ==
    /\ pc # "done" /\ log # <<>> /\ log[Len(log)].raised =>
          /\ pc = "loop"
          /\ i <= Len(assets_to_download) \/ ENABLED Finish
    /\ pc = "loop" =>
          /\ \A p \in 1..(i - 1) : \E j \in Fetches : log[j].pos = p
          /\ success_count = (i - 1) - Cardinality(FailedAtSomeStage)
    /\ pc = "done" /\ BothDatesGood =>
          /\ summary # <<>>
          /\ \A p \in 1..Len(Requested) : \E j \in Fetches : log[j].pos = p
          /\ success_count = Len(Requested) - Cardinality(FailedAtSomeStage)

\* C6: the summary gives the exact counts: the total is the number of
\* requested entries, the successes the number of entries whose fetch and
\* export both went through; three entries with exactly one failure read 2/3
\* and exit with status 1.
C6_SummaryCountsExact ==
    pc = "done" /\ BothDatesGood =>
        /\ total_count = Len(Requested)
        /\ summary = <<Cardinality(Succeeded), Len(Requested)>>
        /\ Len(Requested) = 3 /\ Cardinality(Failed) = 1 =>
              summary = <<2, 3>> /\ exit_status = 1

\* Three entries, exactly one failed.
C6_Witness ==
    /\ pc = "done"
    /\ Len(Requested) = 3
    /\ Cardinality(Failed) = 1
    /\ summary = <<2, 3>>

\* C7 as stated: after a second run with the same arguments and the same
\* provider answers every file is as the first run left it.
C7_SecondRunSameFiles == run = 2 /\ pc = "done" => files = files1

\* C7, amended: after a second run with the same arguments, the same provider
\* answers and the same outcome of every write, every file is as the first
\* run left it.
C7_SecondRunSameFilesSameIo ==
    run = 2 /\ pc = "done" /\ IoOf(log) = io1 => files = files1

\* A second run that wrote a file with records, as the first did.
C7_Witness ==
    /\ run = 2
    /\ pc = "done"
    /\ IoOf(log) = io1
    /\ \E j \in Exports : ~log[j].raised /\ log[j].nrows > 0
    /\ files = files1

\* C8: every frame handed to the exporter has the six columns Open Time, Open,
\* High, Low, Close, Volume in this order and six fields per row, whichever
\* adapter made it, and so has every file an export has written.
C8_SixColumnSchema ==
    /\ pc = "fetched" =>
          /\ df.columns = SixColumns
          /\ \A k \in 1..Len(df.rows) : Len(df.rows[k]) = 6
    /\ log # <<>> /\ log[Len(log)].op = "export" /\ ~log[Len(log)].raised =>
          LET written == files[FileFor(log[Len(log)].asset)] IN
          /\ written.exists
          /\ written.lines # <<>>
          /\ written.lines[1] = SixColumns
          /\ \A k \in 1..Len(written.lines) : Len(written.lines[k]) = 6

\* A file written from the market-data adapter's frame.
C8_Witness ==
    /\ log # <<>>
    /\ log[Len(log)].op = "export"
    /\ ~log[Len(log)].raised
    /\ log[Len(log)].asset = "xauusd"
    /\ Len(files["xauusd_ohlcv_2025.csv"].lines) = 2

\* C9: routing is fixed: btcusdt is fetched from the exchange adapter as
\* BTCUSDT, ethusdt from the exchange adapter as ETHUSDT, xauusd from the
\* market-data adapter as GC=F, each by exactly one adapter call per entry,
\* and an entry's frame is written to {instrument}_ohlcv_2025.csv only.
C9_RoutingFixed ==
    /\ \A j \in Fetches :
          /\ log[j].asset = "btcusdt" =>
                log[j].adapter = "binance" /\ log[j].target = "BTCUSDT"
          /\ log[j].asset = "ethusdt" =>
                log[j].adapter = "binance" /\ log[j].target = "ETHUSDT"
          /\ log[j].asset = "xauusd" =>
                log[j].adapter = "yahoo" /\ log[j].target = "GC=F"
          /\ \A k \in LogIndex :
                log[k].op = "fetch" /\ log[k].pos = log[j].pos => k = j
    /\ \A j \in Exports : log[j].target = FileFor(log[j].asset)
    /\ \A a \in {"btcusdt", "ethusdt", "xauusd"} :
          files[FileFor(a)] # files0[FileFor(a)] =>
              \E j \in Exports : log[j].asset = a

\* All three routed and written.
C9_Witness ==
    /\ pc = "done"
    /\ argAsset = <<>>
    /\ Succeeded = {1, 2, 3}
    /\ \A a \in {"btcusdt", "ethusdt", "xauusd"} : files[FileFor(a)] # files0[FileFor(a)]

\* C10: a run leaves unchanged the file of an instrument that is not in the
\* selection or none of whose fetches returned a frame: a file differs from
\* what it was at the start only if its instrument is in the selection and a
\* fetch of it returned.
C10_FrameOfARun ==
    \A a \in {"btcusdt", "ethusdt", "xauusd"} :
        files[FileFor(a)] # files0[FileFor(a)] =>
            /\ \E p \in 1..Len(Requested) : Requested[p] = a
            /\ \E j \in Fetches : log[j].asset = a /\ ~log[j].raised

\* One instrument left out, one whose fetch raised, one written: only the
\* last file differs.
C10_Witness ==
    /\ pc = "done"
    /\ argAsset = <<"ethusdt", "xauusd">>
    /\ Len(log) = 3
    /\ log[1].raised
    /\ files["xauusd_ohlcv_2025.csv"] # files0["xauusd_ohlcv_2025.csv"]
    /\ files["ethusdt_ohlcv_2025.csv"] = files0["ethusdt_ohlcv_2025.csv"]
    /\ files["btcusdt_ohlcv_2025.csv"] = files0["btcusdt_ohlcv_2025.csv"]
    /\ files0["btcusdt_ohlcv_2025.csv"].exists

====
